---- MODULE Spec2Model ----
(***************************************************************************)
(* Model of the websocket event-streaming handlers of                      *)
(* api-server/controllers/controllersv1/kube.go:                           *)
(*   kubeController.GetPodKubeEvents        (mode = "pod")                 *)
(*   kubeController.GetDeploymentKubeEvents (mode = "deployment")          *)
(*                                                                         *)
(* One session is modelled: the handler goroutine, the closer goroutine    *)
(* (select on ctx.Done / toClose), the inbound-read goroutine, and the     *)
(* informer's listener goroutine that runs the registered Add/Update/      *)
(* Delete callbacks.  client-go delivers the notifications of one          *)
(* registration sequentially, one callback at a time, so the listener is   *)
(* one sequential task; its buffer of undelivered notifications is         *)
(* unbounded, so a notification may reach the callbacks at any later time. *)
(* A write to the connection takes two steps (start and end) so that       *)
(* overlapping writes are visible.                                         *)
(***************************************************************************)
EXTENDS Integers, Sequences, FiniteSets, TLC

VARIABLES
    mode,           \* "pod" | "deployment": which handler serves the session
    podName,        \* ctx.Query("pod_name") != ""
    hpc,            \* handler goroutine position
    step,           \* index of the next setup step of the handler
    err,            \* the handler's err variable (read by the deferred writeWsError)
    closerPc,       \* closer goroutine: "none" | "waiting" | "done"
    readerPc,       \* read goroutine: "none" | "reading" | "doClose" | "done"
    ctxDone,        \* ctx.Done() is closed
    toClose,        \* number of tokens in the buffered channel toClose
    closeCount,     \* number of close(closeCh) calls executed
    connCloseCount, \* number of conn.Close() calls executed
    writers,        \* tasks currently inside a write on conn
    finalWrites,    \* error envelopes started by the handler's deferred writeWsError
    failedCount,    \* failedCount
    registered,     \* AddEventHandler has been called
    cache,          \* events currently in the informer's cache
    seen,           \* the seen map of GetDeploymentKubeEvents (set of messages)
    spc,            \* per task: position inside send()
    sevents,        \* per task: _events of the send() in progress
    delivered,      \* messages of the events delivered by completed pushes
    bEvents,        \* input of a stand-alone snapshot build
    bPayload        \* result of a stand-alone snapshot build

vars == <<mode, podName, hpc, step, err, closerPc, readerPc, ctxDone, toClose,
          closeCount, connCloseCount, writers, finalWrites, failedCount,
          registered, cache, seen, spc, sevents, delivered,
          bEvents, bPayload>>

----------------------------------------------------------------------------
(* Bounds *)

FailCap == 12       \* no new callback is dispatched once failedCount reached it
MaxLen == 2         \* length of the event lists of the stand-alone build
MaxTime == 2        \* timestamps of the stand-alone build range over 0..MaxTime

(* Program constants *)

maxFailed == 10
ToCloseCap == 1

----------------------------------------------------------------------------
(* Events.  A timestamp of 0 is the zero time (IsZero).                    *)

NoErr == "nil"
TooFrequent == "ws events failed too frequently!"
KindPod == "Pod"
TargetPodUID == 1
GroupUIDs == {1, 2}
Now == MaxTime + 1

Ev(k, u, m, e, l, f) == [kind |-> k, uid |-> u, msg |-> m, et |-> e, lt |-> l, ft |-> f]

\* events of the session's cache: a new-style event carrying only eventTime
\* on the target pod, and an old-style event carrying first/last timestamps
\* on another pod of the deployment
SessionEvents == { Ev(KindPod, 1, "m1", 2, 0, 0), Ev(KindPod, 2, "m2", 0, 1, 1) }

\* events of the stand-alone build: the target pod, another pod of the
\* deployment, and a node outside the deployment; at least one timestamp is
\* set, and the first-observed time is zero or the earliest instant
BuildEvents ==
    { e \in [kind : {KindPod, "Node"}, uid : {1, 2, 3}, msg : {"m"},
             et : 0..MaxTime, lt : 0..MaxTime, ft : 0..1] :
        /\ e.et + e.lt + e.ft > 0
        /\ e.kind = "Node" <=> e.uid = 3 }

NotAnEvent == [kind |-> "DeletedFinalStateUnknown"]

----------------------------------------------------------------------------
(* Pure functions of send() *)

\* services.KubeEventService.MakeDeploymentKubeEventFilter: membership of the
\* involved object in the deployment's resources
DeploymentKubeEventFilter(e) == e.uid \in GroupUIDs

\* the pod filter without the comparison of the UID
FilterKindOnly(m, pn, e) ==
    IF pn THEN e.kind = KindPod
    ELSE IF m = "pod" THEN TRUE
    ELSE DeploymentKubeEventFilter(e)

\* filter / eventFilter
Filter(m, pn, e) ==
    IF pn THEN e.kind = KindPod /\ e.uid = TargetPodUID
    ELSE IF m = "pod" THEN TRUE
    ELSE DeploymentKubeEventFilter(e)

\* it / jt of the comparator of GetDeploymentKubeEvents
resolve(e) ==
    IF e.et # 0 THEN e.et
    ELSE IF e.lt # 0 THEN e.lt
    ELSE IF e.ft # 0 THEN e.ft
    ELSE Now

\* the less function handed to sort.SliceStable
less(m, a, b) ==
    IF m = "pod" THEN a.lt < b.lt
    ELSE resolve(a) < resolve(b)

Front(s) == SubSeq(s, 1, Len(s) - 1)
Last(s) == s[Len(s)]

\* inner loop of the insertion sort: x moves left while less(x, predecessor)
RECURSIVE Insert(_, _, _)
Insert(m, s, x) ==
    IF s = <<>> THEN <<x>>
    ELSE IF less(m, x, Last(s)) THEN Append(Insert(m, Front(s), x), Last(s))
    ELSE Append(s, x)

\* sort.SliceStable on at most 20 elements is one insertion sort
RECURSIVE SliceStable(_, _)
SliceStable(m, s) ==
    IF s = <<>> THEN <<>>
    ELSE Insert(m, SliceStable(m, Front(s)), Last(s))

\* the loop over events that fills _events
RECURSIVE Keep(_, _, _, _)
Keep(m, pn, sn, s) ==
    IF s = <<>> THEN <<>>
    ELSE IF ~Filter(m, pn, Head(s)) THEN Keep(m, pn, sn, Tail(s))
    ELSE IF m = "deployment" /\ Head(s).msg \in sn THEN Keep(m, pn, sn, Tail(s))
    ELSE <<Head(s)>> \o Keep(m, pn, sn, Tail(s))

\* _events as written by conn.WriteJSON
Snapshot(m, pn, sn, s) == SliceStable(m, Keep(m, pn, sn, s))

\* eventLister.List returns the cache in no particular order
Listings(c) ==
    { s \in [1..Cardinality(c) -> c] : \A i, j \in 1..Cardinality(c) : s[i] = s[j] => i = j }

Msgs(s) == { s[i].msg : i \in 1..Len(s) }

\* writeWsError(conn, err) writes an error envelope iff err is not nil
writeWsErrorWrites(e) == e # NoErr

----------------------------------------------------------------------------
(* The handler goroutine *)

Handler == "handler"
Listener == "listener"
Tasks == {Handler, Listener}

\* the fallible calls of GetPodKubeEvents in program order; "spawn" stands for
\* the statements that start the closer and the read goroutine and defer doClose
PodSteps(pn) ==
    <<"GetCluster", "canView", "spawn">>
    \o (IF pn THEN <<"GetKubeCliSet", "GetPod">> ELSE <<>>)
    \o <<"GetEventInformer">>

\* the same for GetDeploymentKubeEvents
DeploymentSteps(pn) ==
    <<"GetDeployment", "canView", "spawn", "GetCluster", "MakeDeploymentKubeEventFilter">>
    \o (IF pn THEN <<"GetKubeCliSet", "GetPod", "PodInDeployment">> ELSE <<>>)
    \o <<"GetEventInformer">>

Steps == IF mode = "pod" THEN PodSteps(podName) ELSE DeploymentSteps(podName)

\* AddEventHandler moved in front of the initial send()
StreamStepsRegisterFirst == <<"register", "send", "watchdog">>

\* what follows a successful setup: send(), AddEventHandler, the watchdog loop
StreamSteps == <<"send", "register", "watchdog">>

After(s) == StreamSteps[(CHOOSE i \in 1..Len(StreamSteps) : StreamSteps[i] = s) + 1]

NotBuilt == [built |-> FALSE, events |-> <<>>]

closed == closeCount > 0
informerAcquired == step > Len(Steps)
setupFailed == err \notin {NoErr, TooFrequent}

Init ==
    /\ mode \in {"pod", "deployment"}
    /\ podName \in BOOLEAN
    /\ hpc = "setup"
    /\ step = 1
    /\ err = NoErr
    /\ closerPc = "none"
    /\ readerPc = "none"
    /\ ctxDone = FALSE
    /\ toClose = 0
    /\ closeCount = 0
    /\ connCloseCount = 0
    /\ writers = {}
    /\ finalWrites = 0
    /\ failedCount = 0
    /\ registered = FALSE
    /\ cache \in SUBSET SessionEvents
    /\ seen = {}
    /\ spc = [t \in Tasks |-> "idle"]
    /\ sevents = [t \in Tasks |-> <<>>]
    /\ delivered = {}
    /\ bEvents = <<>>
    /\ bPayload = NotBuilt

sessionConst == <<mode, podName, seen, bEvents, bPayload>>
closerVars == <<closerPc, ctxDone, toClose, closeCount>>
sendVars == <<spc, sevents, delivered, failedCount>>
envVars == <<registered, cache>>

\* go func() { select { ... } }(); defer doClose(); go func() { for { ReadMessage ... } }()
Spawn ==
    /\ hpc = "setup"
    /\ step <= Len(Steps)
    /\ Steps[step] = "spawn"
    /\ closerPc' = "waiting"
    /\ readerPc' = "reading"
    /\ step' = step + 1
    /\ UNCHANGED <<hpc, err, ctxDone, toClose, closeCount, connCloseCount, writers,
                   finalWrites, sendVars, envVars, sessionConst>>

\* a setup call returns without error
SetupOk ==
    /\ hpc = "setup"
    /\ step <= Len(Steps)
    /\ Steps[step] # "spawn"
    /\ step' = step + 1
    /\ hpc' = IF step = Len(Steps) THEN StreamSteps[1] ELSE "setup"
    /\ UNCHANGED <<err, closerVars, readerPc, connCloseCount, writers,
                   finalWrites, sendVars, envVars, sessionConst>>

\* a setup call returns an error: return err, the deferred calls run
SetupFail ==
    /\ hpc = "setup"
    /\ step <= Len(Steps)
    /\ Steps[step] # "spawn"
    /\ err' = Steps[step]
    /\ hpc' = IF closerPc = "none" THEN "deferWrite" ELSE "deferDoClose"
    /\ UNCHANGED <<step, closerVars, readerPc, connCloseCount, writers,
                   finalWrites, sendVars, envVars, sessionConst>>

\* send() called by the handler itself (the initial snapshot)
HandlerSend ==
    /\ hpc = "send"
    /\ hpc' = "inSend"
    /\ spc' = [spc EXCEPT ![Handler] = "enter"]
    /\ UNCHANGED <<step, err, closerVars, readerPc, connCloseCount, writers, finalWrites,
                   sevents, delivered, failedCount, envVars, sessionConst>>

\* informer.AddEventHandler(...)
Register ==
    /\ hpc = "register"
    /\ registered' = TRUE
    /\ hpc' = After("register")
    /\ UNCHANGED <<step, err, closerVars, readerPc, connCloseCount, writers, finalWrites,
                   sendVars, cache, sessionConst>>

\* a watchdog that looks at the failure ceiling before it looks at closeCh
WatchdogSelectCeilingFirst ==
    /\ hpc = "watchdog"
    /\ hpc' = IF closed /\ failedCount <= maxFailed THEN "deferDoClose" ELSE "wdCheck"
    /\ UNCHANGED <<step, err, closerVars, readerPc, connCloseCount, writers, finalWrites,
                   sendVars, envVars, sessionConst>>

\* the watchdog's select on closeCh
WatchdogSelect ==
    /\ hpc = "watchdog"
    /\ hpc' = IF closed THEN "deferDoClose" ELSE "wdCheck"
    /\ UNCHANGED <<step, err, closerVars, readerPc, connCloseCount, writers, finalWrites,
                   sendVars, envVars, sessionConst>>

\* the ceiling compared with >= instead of >
tooManyFailuresAtCeiling(fc) == fc >= maxFailed

\* failedCount > maxFailed
tooManyFailures(fc) == fc > maxFailed

\* the error assigned to a variable that shadows the handler's err
breachErrorShadowed == NoErr

\* err = errors.New("ws events failed too frequently!")
breachError == TooFrequent

\* if failedCount > maxFailed { err = ...; return }; <-ticker.C
WatchdogCheck ==
    /\ hpc = "wdCheck"
    /\ IF tooManyFailures(failedCount)
       THEN err' = breachError /\ hpc' = "deferDoClose"
       ELSE err' = err /\ hpc' = "watchdog"
    /\ UNCHANGED <<step, closerVars, readerPc, connCloseCount, writers, finalWrites,
                   sendVars, envVars, sessionConst>>

\* a send on toClose without the default case
doCloseBlocking(ch, chNext) == ch < ToCloseCap /\ chNext = ch + 1

\* doClose that always takes the default case
doCloseDropped(ch, chNext) == chNext = ch

\* select { case toClose <- struct{}{}: default: }
doClose(ch, chNext) ==
    IF ch < ToCloseCap THEN chNext = ch + 1 ELSE chNext = ch

\* the deferred doClose()
HandlerDoClose ==
    /\ hpc = "deferDoClose"
    /\ doClose(toClose, toClose')
    /\ hpc' = "deferWrite"
    /\ UNCHANGED <<step, err, closerPc, ctxDone, closeCount, readerPc, connCloseCount,
                   writers, finalWrites, sendVars, envVars, sessionConst>>

\* the deferred writeWsError(conn, err): nothing to write
HandlerNoFinalWrite ==
    /\ hpc = "deferWrite"
    /\ ~writeWsErrorWrites(err)
    /\ hpc' = "deferClose"
    /\ UNCHANGED <<step, err, closerVars, readerPc, connCloseCount, writers, finalWrites,
                   sendVars, envVars, sessionConst>>

\* the deferred writeWsError(conn, err): the write of the error envelope starts
HandlerFinalWriteStart ==
    /\ hpc = "deferWrite"
    /\ writeWsErrorWrites(err)
    /\ writers' = writers \cup {Handler}
    /\ finalWrites' = finalWrites + 1
    /\ hpc' = "deferWriting"
    /\ UNCHANGED <<step, err, closerVars, readerPc, connCloseCount,
                   sendVars, envVars, sessionConst>>

\* ... and ends
HandlerFinalWriteEnd ==
    /\ hpc = "deferWriting"
    /\ writers' = writers \ {Handler}
    /\ hpc' = "deferClose"
    /\ UNCHANGED <<step, err, closerVars, readerPc, connCloseCount, finalWrites,
                   sendVars, envVars, sessionConst>>

\* the deferred conn.Close(); the handler returns
HandlerConnClose ==
    /\ hpc = "deferClose"
    /\ connCloseCount' = connCloseCount + 1
    /\ hpc' = "returned"
    /\ UNCHANGED <<step, err, closerVars, readerPc, writers, finalWrites,
                   sendVars, envVars, sessionConst>>

----------------------------------------------------------------------------
(* The closer goroutine and the read goroutine *)

\* the caller's context is cancelled
CtxCancel ==
    /\ closerPc = "waiting"
    /\ ~ctxDone
    /\ ctxDone' = TRUE
    /\ UNCHANGED <<hpc, step, err, closerPc, toClose, closeCount, readerPc, connCloseCount,
                   writers, finalWrites, sendVars, envVars, sessionConst>>

\* case <-ctx.Done(): close(closeCh)
CloserCtxDone ==
    /\ closerPc = "waiting"
    /\ ctxDone
    /\ closeCount' = closeCount + 1
    /\ closerPc' = "done"
    /\ UNCHANGED <<hpc, step, err, ctxDone, toClose, readerPc, connCloseCount,
                   writers, finalWrites, sendVars, envVars, sessionConst>>

\* case <-toClose: close(closeCh)
CloserToClose ==
    /\ closerPc = "waiting"
    /\ toClose > 0
    /\ toClose' = toClose - 1
    /\ closeCount' = closeCount + 1
    /\ closerPc' = "done"
    /\ UNCHANGED <<hpc, step, err, ctxDone, readerPc, connCloseCount,
                   writers, finalWrites, sendVars, envVars, sessionConst>>

\* conn.ReadMessage() returns an error (the peer went away or conn was closed)
ReaderError ==
    /\ readerPc = "reading"
    /\ readerPc' = "doClose"
    /\ UNCHANGED <<hpc, step, err, closerVars, connCloseCount,
                   writers, finalWrites, sendVars, envVars, sessionConst>>

\* doClose(); return
ReaderDoClose ==
    /\ readerPc = "doClose"
    /\ doClose(toClose, toClose')
    /\ readerPc' = "done"
    /\ UNCHANGED <<hpc, step, err, closerPc, ctxDone, closeCount, connCloseCount,
                   writers, finalWrites, sendVars, envVars, sessionConst>>

----------------------------------------------------------------------------
(* The informer: cache changes and the session's listener *)

handlerVars == <<hpc, step, err, readerPc, connCloseCount, writers, finalWrites>>

\* the watch adds an event to the cache
CacheAdd ==
    /\ informerAcquired
    /\ \E e \in SessionEvents \ cache : cache' = cache \cup {e}
    /\ UNCHANGED <<handlerVars, closerVars, sendVars, registered, sessionConst>>

\* the watch removes an event from the cache
CacheDelete ==
    /\ informerAcquired
    /\ \E e \in cache : cache' = cache \ {e}
    /\ UNCHANGED <<handlerVars, closerVars, sendVars, registered, sessionConst>>

\* the callback without its call of filter
passesAnyEvent(obj) == obj # NotAnEvent

\* if event, ok := obj.(*corev1.Event); ok { if !filter(event) { return } ... }
passes(obj) == obj # NotAnEvent /\ Filter(mode, podName, obj)

\* the listener takes the next notification when the previous callback returned
listenerFree == spc[Listener] = "idle"

\* the body shared by AddFunc, UpdateFunc and DeleteFunc: send() is called
\* iff the object is an event that passes the filter
Callback(obj) ==
    /\ registered
    /\ listenerFree
    /\ passes(obj) => failedCount < FailCap
    /\ spc' = [spc EXCEPT ![Listener] = IF passes(obj) THEN "enter" ELSE "idle"]
    /\ UNCHANGED <<handlerVars, closerVars, sevents, delivered, failedCount,
                   envVars, sessionConst>>

\* AddFunc runs for an event of the cache
OnAdd == \E e \in cache : Callback(e)

\* UpdateFunc runs for an event of the cache (a change or a resync)
OnUpdate == \E e \in cache : Callback(e)

\* DeleteFunc runs for an event that left the cache, or for the
\* cache.DeletedFinalStateUnknown of a deletion the watch missed
OnDelete == \E obj \in (SessionEvents \ cache) \cup {NotAnEvent} : Callback(obj)

----------------------------------------------------------------------------
(* send(), run by task t *)

\* send() returns to its caller
Return(t) ==
    /\ spc' = [spc EXCEPT ![t] = "idle"]
    /\ sevents' = [sevents EXCEPT ![t] = <<>>]
    /\ hpc' = IF t = Handler THEN After("send") ELSE hpc

\* select { case <-closeCh: return; default: }
SendEnter(t) ==
    /\ spc[t] = "enter"
    /\ IF closed
       THEN Return(t)
       ELSE spc' = [spc EXCEPT ![t] = "list"] /\ UNCHANGED <<sevents, hpc>>
    /\ UNCHANGED <<step, err, readerPc, connCloseCount, writers, finalWrites,
                   closerVars, delivered, failedCount, envVars, sessionConst>>

\* eventLister.List fails: return with err set, the deferred function runs
SendListFail(t) ==
    /\ spc[t] = "list"
    /\ spc' = [spc EXCEPT ![t] = "werr"]
    /\ UNCHANGED <<handlerVars, closerVars, sevents, delivered, failedCount,
                   envVars, sessionConst>>

\* which statement follows sort.SliceStable
afterSort(m) == IF m = "deployment" THEN "recheck" ELSE "write"

\* eventLister.List succeeds; filter loop and sort.SliceStable
SendListOk(t) ==
    /\ spc[t] = "list"
    /\ \E l \in Listings(cache) :
        sevents' = [sevents EXCEPT ![t] = Snapshot(mode, podName, seen, l)]
    /\ spc' = [spc EXCEPT ![t] = afterSort(mode)]
    /\ UNCHANGED <<handlerVars, closerVars, delivered, failedCount, envVars, sessionConst>>

\* the second select on closeCh (GetDeploymentKubeEvents only)
SendRecheck(t) ==
    /\ spc[t] = "recheck"
    /\ IF closed
       THEN Return(t)
       ELSE spc' = [spc EXCEPT ![t] = "write"] /\ UNCHANGED <<sevents, hpc>>
    /\ UNCHANGED <<step, err, readerPc, connCloseCount, writers, finalWrites,
                   closerVars, delivered, failedCount, envVars, sessionConst>>

\* conn.WriteJSON of the success envelope starts
SendWriteStart(t) ==
    /\ spc[t] = "write"
    /\ writers' = writers \cup {t}
    /\ spc' = [spc EXCEPT ![t] = "writing"]
    /\ UNCHANGED <<hpc, step, err, readerPc, connCloseCount, finalWrites, closerVars,
                   sevents, delivered, failedCount, envVars, sessionConst>>

\* a send() that records the delivered messages in seen
SendWriteOkMarkSeen(t) ==
    /\ spc[t] = "writing"
    /\ connCloseCount = 0
    /\ writers' = writers \ {t}
    /\ delivered' = delivered \cup Msgs(sevents[t])
    /\ seen' = seen \cup Msgs(sevents[t])
    /\ Return(t)
    /\ UNCHANGED <<step, err, readerPc, connCloseCount, finalWrites, closerVars,
                   failedCount, envVars, mode, podName, bEvents, bPayload>>

\* conn.WriteJSON returns nil: the snapshot is delivered, send() returns
SendWriteOk(t) ==
    /\ spc[t] = "writing"
    /\ connCloseCount = 0
    /\ writers' = writers \ {t}
    /\ delivered' = delivered \cup Msgs(sevents[t])
    /\ Return(t)
    /\ UNCHANGED <<step, err, readerPc, connCloseCount, finalWrites, closerVars,
                   failedCount, envVars, sessionConst>>

\* conn.WriteJSON returns an error
SendWriteFail(t) ==
    /\ spc[t] = "writing"
    /\ writers' = writers \ {t}
    /\ spc' = [spc EXCEPT ![t] = "werr"]
    /\ sevents' = [sevents EXCEPT ![t] = <<>>]
    /\ UNCHANGED <<hpc, step, err, readerPc, connCloseCount, finalWrites, closerVars,
                   delivered, failedCount, envVars, sessionConst>>

\* the deferred writeWsError(conn, err) with err != nil starts its write
SendErrWriteStart(t) ==
    /\ spc[t] = "werr"
    /\ writers' = writers \cup {t}
    /\ spc' = [spc EXCEPT ![t] = "ewriting"]
    /\ UNCHANGED <<hpc, step, err, readerPc, connCloseCount, finalWrites, closerVars,
                   sevents, delivered, failedCount, envVars, sessionConst>>

\* ... and ends
SendErrWriteEnd(t) ==
    /\ spc[t] = "ewriting"
    /\ writers' = writers \ {t}
    /\ spc' = [spc EXCEPT ![t] = "failed"]
    /\ UNCHANGED <<hpc, step, err, readerPc, connCloseCount, finalWrites, closerVars,
                   sevents, delivered, failedCount, envVars, sessionConst>>

\* failed() that also asks for the session to be closed
SendFailedAndClose(t) ==
    /\ spc[t] = "failed"
    /\ failedCount' = failedCount + 1
    /\ doClose(toClose, toClose')
    /\ spc' = [spc EXCEPT ![t] = "sleep"]
    /\ UNCHANGED <<handlerVars, closerPc, ctxDone, closeCount, sevents, delivered,
                   envVars, sessionConst>>

\* failed(): atomic.AddInt32(&failedCount, 1), then time.Sleep
SendFailed(t) ==
    /\ spc[t] = "failed"
    /\ failedCount' = failedCount + 1
    /\ spc' = [spc EXCEPT ![t] = "sleep"]
    /\ UNCHANGED <<handlerVars, closerVars, sevents, delivered, envVars, sessionConst>>

\* the count starts over after the cooldown
SendWakeReset(t) ==
    /\ spc[t] = "sleep"
    /\ failedCount' = 0
    /\ Return(t)
    /\ UNCHANGED <<step, err, readerPc, connCloseCount, writers, finalWrites, closerVars,
                   delivered, envVars, sessionConst>>

\* time.Sleep is over: failed() and send() return
SendWake(t) ==
    /\ spc[t] = "sleep"
    /\ Return(t)
    /\ UNCHANGED <<step, err, readerPc, connCloseCount, writers, finalWrites, closerVars,
                   delivered, failedCount, envVars, sessionConst>>

Send(t) ==
    \/ SendEnter(t)
    \/ SendListFail(t)
    \/ SendListOk(t)
    \/ SendRecheck(t)
    \/ SendWriteStart(t)
    \/ SendWriteOk(t)
    \/ SendWriteFail(t)
    \/ SendErrWriteStart(t)
    \/ SendErrWriteEnd(t)
    \/ SendFailed(t)
    \/ SendWake(t)

----------------------------------------------------------------------------
(* The session *)

HandlerNext ==
    \/ Spawn
    \/ SetupOk
    \/ SetupFail
    \/ HandlerSend
    \/ Register
    \/ WatchdogSelect
    \/ WatchdogCheck
    \/ HandlerDoClose
    \/ HandlerNoFinalWrite
    \/ HandlerFinalWriteStart
    \/ HandlerFinalWriteEnd
    \/ HandlerConnClose

Next ==
    \/ HandlerNext
    \/ CtxCancel
    \/ CloserCtxDone
    \/ CloserToClose
    \/ ReaderError
    \/ ReaderDoClose
    \/ CacheAdd
    \/ CacheDelete
    \/ OnAdd
    \/ OnUpdate
    \/ OnDelete
    \/ \E t \in Tasks : Send(t)

Spec == Init /\ [][Next]_vars

\* the goroutines of the session are scheduled fairly; cancellation, read
\* errors and cache changes are up to the environment
FairSpec ==
    /\ Spec
    /\ WF_vars(HandlerNext)
    /\ WF_vars(CloserCtxDone \/ CloserToClose)
    /\ WF_vars(ReaderDoClose)
    /\ \A t \in Tasks : WF_vars(Send(t))

----------------------------------------------------------------------------
(* The snapshot build on its own: any list of events, both handlers *)

RECURSIVE SeqsUpTo(_, _)
SeqsUpTo(S, n) ==
    IF n = 0 THEN {<<>>}
    ELSE LET shorter == SeqsUpTo(S, n - 1)
         IN shorter \cup { Append(s, e) : s \in { x \in shorter : Len(x) = n - 1 }, e \in S }

BuildInit ==
    /\ mode \in {"pod", "deployment"}
    /\ podName \in BOOLEAN
    /\ hpc = "inSend"
    /\ step = 1
    /\ err = NoErr
    /\ closerPc = "waiting"
    /\ readerPc = "reading"
    /\ ctxDone = FALSE
    /\ toClose = 0
    /\ closeCount = 0
    /\ connCloseCount = 0
    /\ writers = {}
    /\ finalWrites = 0
    /\ failedCount = 0
    /\ registered = FALSE
    /\ cache = {}
    /\ seen = {}
    /\ spc = [t \in Tasks |-> "idle"]
    /\ sevents = [t \in Tasks |-> <<>>]
    /\ delivered = {}
    /\ bEvents \in SeqsUpTo(BuildEvents, MaxLen)
    /\ bPayload = NotBuilt

buildFrame == <<hpc, step, err, closerVars, readerPc, connCloseCount, writers,
                finalWrites, sendVars, envVars, mode, podName, seen, bEvents>>

\* the filter loop and sort of GetPodKubeEvents' send() applied to bEvents
BuildPod ==
    /\ mode = "pod"
    /\ bPayload' = [built |-> TRUE, events |-> Snapshot("pod", podName, seen, bEvents)]
    /\ UNCHANGED buildFrame

\* the filter loop and sort of GetDeploymentKubeEvents' send() applied to bEvents
BuildDeployment ==
    /\ mode = "deployment"
    /\ bPayload' = [built |-> TRUE, events |-> Snapshot("deployment", podName, seen, bEvents)]
    /\ UNCHANGED buildFrame

BuildNext == BuildPod \/ BuildDeployment

BuildSpec == BuildInit /\ [][BuildNext]_vars

----------------------------------------------------------------------------
(* Properties *)

inSend(t) == spc[t] # "idle"
startsPush(t) == spc[t] # "writing" /\ spc'[t] = "writing"

C2_SingleWriter == Cardinality(writers) <= 1

\* C3: doClose never blocks, closeCh is closed at most once, and the
\* connection is closed exactly once, whatever cancellation sources fire
C3_CancelIdempotent ==
    /\ hpc = "deferDoClose" => ENABLED HandlerDoClose
    /\ readerPc = "doClose" => ENABLED ReaderDoClose
    /\ closeCount <= 1
    /\ connCloseCount <= 1
    /\ hpc = "returned" => connCloseCount = 1

\* all three sources fired: the context is done, the reader and the handler
\* both called doClose, and the second doClose found toClose full
C3_Witness ==
    /\ ctxDone
    /\ readerPc = "done"
    /\ hpc = "returned"
    /\ closerPc = "done"
    /\ toClose = ToCloseCap
    /\ closeCount = 1

\* C4: with more than maxFailed failures and no cancellation the watchdog's
\* poll ends the session with the "failed too frequently" error, and it does
\* so eventually; with maxFailed or fewer failures that error is never set
C4_WatchdogThreshold ==
    /\ [](err = TooFrequent => failedCount > maxFailed)
    /\ [][hpc = "wdCheck" /\ hpc' # "wdCheck" /\ failedCount > maxFailed
            => err' = TooFrequent /\ hpc' = "deferDoClose"]_vars
    /\ (failedCount = maxFailed + 1 /\ ~closed) ~> (err = TooFrequent \/ closed)

\* the session ended with the error after exactly maxFailed + 1 failures
C4_Witness ==
    /\ failedCount = maxFailed + 1
    /\ err = TooFrequent
    /\ hpc = "returned"
    /\ ~closed

\* C5: once the watchdog has set the "failed too frequently" error, no send()
\* starts the write of a success envelope
C5_NoPushAfterBreach ==
    [][err = TooFrequent => \A t \in Tasks : ~startsPush(t)]_vars

\* C6: a handler that returned because a setup step failed never started the
\* closer or the read goroutine, pushed nothing, and wrote one error envelope
C6_SetupFailureStartsNothing ==
    (setupFailed /\ hpc = "returned") =>
        /\ closerPc = "none"
        /\ readerPc = "none"
        /\ delivered = {}
        /\ \A t \in Tasks : ~inSend(t)
        /\ finalWrites = 1

\* C7: when the handler has returned, the closer and the read goroutine have
\* ended and no send() is in progress
C7_AllStoppedAtReturn ==
    hpc = "returned" =>
        /\ closerPc \in {"none", "done"}
        /\ readerPc \in {"none", "done"}
        /\ \A t \in Tasks : ~inSend(t)

\* C8: after the handler has returned no callback of the session runs any
\* more
C8_UnsubscribedAtReturn ==
    [][hpc = "returned" => ~(OnAdd \/ OnUpdate \/ OnDelete)]_vars

\* C9: in group mode a push never contains an event whose message was
\* delivered by an earlier push of the session
C9_DeliveredOnce ==
    \A t \in Tasks :
        (mode = "deployment" /\ spc[t] = "writing") => Msgs(sevents[t]) \cap delivered = {}

\* out is the stable ascending sort of in by key
IsStableSortBy(in, out, key(_)) ==
    /\ Len(out) = Len(in)
    /\ \E p \in [1..Len(in) -> 1..Len(in)] :
        /\ \A i, j \in 1..Len(in) : p[i] = p[j] => i = j
        /\ \A i \in 1..Len(in) : out[i] = in[p[i]]
        /\ \A i, j \in 1..Len(in) :
            i < j => \/ key(out[i]) < key(out[j])
                     \/ key(out[i]) = key(out[j]) /\ p[i] < p[j]

matching(s) == SelectSeq(s, LAMBDA e : Filter(mode, podName, e))

\* C10: in both variants the payload is the stable sort of the filtered
\* events, ascending by resolve(event)
C10_PayloadSortedByResolve ==
    bPayload.built => IsStableSortBy(matching(bEvents), bPayload.events, resolve)


cancelFired == ctxDone \/ readerPc \in {"doClose", "done"}

\* C11: once the caller's context is done or the read goroutine saw a read
\* error, the handler eventually returns and the connection is closed, also
\* when a send() is in its cooldown at that moment
C11_CancelLeadsToReturn ==
    cancelFired ~> (hpc = "returned" /\ connCloseCount = 1)

\* the handler returned after a cancellation while the listener's send() was
\* still in its cooldown
C11_Witness ==
    /\ cancelFired
    /\ spc[Listener] = "sleep"
    /\ err = NoErr
    /\ hpc = "returned"
    /\ connCloseCount = 1


readErrorSeen == readerPc \in {"doClose", "done"}

\* C12: from the moment the read goroutine has observed the read error,
\* failedCount is never incremented and no cooldown is entered
C12_NoFailureAfterReadError ==
    [][readErrorSeen => failedCount' = failedCount]_vars


\* C13: a teardown caused by the failure ceiling attempts exactly one final
\* error envelope, carrying the "failed too frequently" message, before the
\* connection is closed; a teardown with a nil error writes none
C13_FinalErrorEnvelope ==
    /\ [][hpc = "wdCheck" /\ hpc' = "deferDoClose" => err' = TooFrequent]_vars
    /\ [][finalWrites' # finalWrites =>
            /\ finalWrites' = 1
            /\ err # NoErr
            /\ connCloseCount = 0]_vars
    /\ [](hpc \in {"deferClose", "returned"} =>
            finalWrites = IF err = NoErr THEN 0 ELSE 1)

\* the session ended on the failure ceiling with its one final error envelope
C13_Witness ==
    /\ hpc = "returned"
    /\ err = TooFrequent
    /\ finalWrites = 1
    /\ connCloseCount = 1


isTarget(obj) == obj # NotAnEvent /\ obj.kind = KindPod /\ obj.uid = TargetPodUID
built(t) == spc[t] \in {"recheck", "write", "writing"}
onlyTarget(s) == \A i \in 1..Len(s) : isTarget(s[i])
Objects == SessionEvents \cup {NotAnEvent}
callsSend(obj) == Callback(obj) /\ spc'[Listener] = "enter"

\* C14 as stated: in single-resource mode, with or without pod_name, a pushed
\* payload holds only events of the target resource
C14_OnlyTargetAnyRequest ==
    \A t \in Tasks : (mode = "pod" /\ built(t)) => onlyTarget(sevents[t])

\* C14 amended: in single-resource mode with pod_name, a pushed payload holds
\* only events whose involved object is the named pod, and a callback calls
\* send() only for such an event
C14_OnlyTargetWithPodName ==
    /\ [](\A t \in Tasks : (mode = "pod" /\ podName /\ built(t)) => onlyTarget(sevents[t]))
    /\ [][(mode = "pod" /\ podName) =>
            \A obj \in Objects : callsSend(obj) => isTarget(obj)]_vars

\* a push for the named pod while the cache also holds an event of another pod
C14_Witness ==
    /\ mode = "pod"
    /\ podName
    /\ spc[Listener] = "writing"
    /\ Len(sevents[Listener]) = 1
    /\ cache = SessionEvents


\* C15: in both variants send() checks closeCh again between the build and
\* the write: it never goes from the build to the write with closeCh closed,
\* and a send() that finds it closed there returns without a write and
\* without counting a failure
C15_RecheckBeforeWrite ==
    [][\A t \in Tasks :
        /\ (spc[t] = "list" /\ spc'[t] = "write") => ~closed
        /\ (spc[t] = "recheck" /\ spc'[t] # "recheck" /\ closed) =>
              (spc'[t] = "idle" /\ failedCount' = failedCount /\ writers' = writers)]_vars


failing(t) == spc[t] \in {"werr", "ewriting", "failed", "sleep"}
tearingDown == hpc \in {"deferDoClose", "deferWrite", "deferWriting", "deferClose", "returned"}

\* C16: a send() that failed attempts one error envelope, then increments
\* failedCount by one, then sleeps, in that order, and on the way neither
\* sets the cancellation signal, nor closes the connection, nor sets the
\* handler's error, nor moves the handler into its teardown
C16_FailureStaysLocal ==
    [][\A t \in Tasks : (failing(t) /\ spc'[t] # spc[t]) =>
        /\ spc[t] = "werr" => (spc'[t] = "ewriting" /\ writers' = writers \cup {t})
        /\ spc[t] = "ewriting" => (spc'[t] = "failed" /\ writers' = writers \ {t})
        /\ spc[t] = "failed" => spc'[t] = "sleep"
        /\ spc[t] = "sleep" => spc'[t] = "idle"
        /\ failedCount' = failedCount + (IF spc[t] = "failed" THEN 1 ELSE 0)
        /\ UNCHANGED <<closeCount, toClose, ctxDone, connCloseCount, err, registered>>
        /\ tearingDown' = tearingDown]_vars

\* after failures below the ceiling the session still streams: a later
\* notification has triggered a push
C16_Witness ==
    /\ failedCount \in 1..maxFailed
    /\ spc[Listener] = "writing"
    /\ hpc \in {"watchdog", "wdCheck"}
    /\ err = NoErr
    /\ ~closed
    /\ connCloseCount = 0


countsFailure(t) == spc[t] = "failed" /\ spc'[t] = "sleep"

\* C17: failedCount changes only when a send() that ended with an error
\* counts it, and then by exactly one; every other step leaves it unchanged
C17_FailedCountMonotonic ==
    [][/\ failedCount' # failedCount =>
            (failedCount' = failedCount + 1 /\ \E t \in Tasks : countsFailure(t))
       /\ \A t \in Tasks :
            /\ countsFailure(t) => failedCount' = failedCount + 1
            /\ (spc'[t] = "sleep" /\ spc[t] # "sleep") => spc[t] = "failed"
            /\ (failing(t) /\ spc'[t] = "idle") => spc[t] = "sleep"]_vars

\* two failures were counted and a push succeeded, with the count kept
C17_Witness ==
    /\ failedCount = 2
    /\ delivered # {}
    /\ \A t \in Tasks : ~inSend(t)
    /\ hpc = "watchdog"


relevant(obj) == obj # NotAnEvent /\ Filter(mode, podName, obj)
besidesSpc == <<mode, podName, hpc, step, err, closerPc, readerPc, ctxDone, toClose,
                closeCount, connCloseCount, writers, finalWrites, failedCount,
                registered, cache, seen, sevents, delivered, bEvents, bPayload>>

\* C18: a callback whose object is not an event or does not pass the
\* session's filter changes nothing; a callback whose event passes the filter
\* enters send() once and changes nothing else
C18_IrrelevantNotificationNoEffect ==
    [][\A obj \in Objects : Callback(obj) =>
        IF relevant(obj)
        THEN spc' = [spc EXCEPT ![Listener] = "enter"] /\ UNCHANGED besidesSpc
        ELSE UNCHANGED vars]_vars

\* a streaming session whose cache holds an event the filter rejects and one
\* it accepts, with the listener ready for the next notification
C18_Witness ==
    /\ registered
    /\ listenerFree
    /\ hpc = "watchdog"
    /\ ~closed
    /\ \E e \in cache : ~relevant(e)
    /\ \E e \in cache : relevant(e)
    /\ ENABLED OnUpdate


Elems(s) == { s[i] : i \in 1..Len(s) }

\* C19: in group mode seen stays empty, so the snapshot built by send() holds
\* every event of the listed cache that passes the filter, once each,
\* whether or not an earlier push delivered it
C19_SeenStaysEmpty ==
    /\ [](seen = {})
    /\ [][\A t \in Tasks :
            (mode = "deployment" /\ spc[t] = "list" /\ spc'[t] = "recheck") =>
                /\ Elems(sevents'[t]) = { e \in cache : Filter(mode, podName, e) }
                /\ Len(sevents'[t]) = Cardinality(Elems(sevents'[t]))]_vars

\* a push of the deployment session that holds an event an earlier push
\* already delivered
C19_Witness ==
    /\ mode = "deployment"
    /\ seen = {}
    /\ spc[Listener] = "writing"
    /\ Msgs(sevents[Listener]) \cap delivered # {}


\* C20: a watchdog poll that finds closeCh closed returns without setting the
\* error, whatever failedCount is, and a session that ends with a nil error
\* writes no final error envelope
C20_CancelBeforeCeiling ==
    /\ [][(hpc = "watchdog" /\ closed /\ hpc' # hpc) =>
            (hpc' = "deferDoClose" /\ err' = err /\ err = NoErr)]_vars
    /\ [](tearingDown /\ err = NoErr => finalWrites = 0)

\* the session ended with a nil error although failedCount was above the
\* ceiling
C20_Witness ==
    /\ hpc = "returned"
    /\ closed
    /\ failedCount > maxFailed
    /\ err = NoErr
    /\ finalWrites = 0

====
